---- MODULE Spec2Model ----
(***************************************************************************)
(* The trace post-processor of ddtrace/tracer/post_processor.go:           *)
(* readWriteSpan, the locked read/write view over a finished span, and     *)
(* tracer.runProcessor, which hands a finished trace to the registered     *)
(* processor and reports whether the trace is kept.                        *)
(* Also the configuration of the mux router (contrib/gorilla/mux option.go):*)
(* newConfig, its defaults and its analytics options.                      *)
(***************************************************************************)
EXTENDS Integers, Sequences, FiniteSets, TLC

\* ---------------------------------------------------------------- bounds

\* Spans in a finished trace (the batch handed to runProcessor): 0..MaxSpans.
MaxSpans == 2
\* Goroutines that use views of one trace at the same time.
MaxThreads == 2
\* Options passed to the mux router's newConfig: 0..MaxOpts.
MaxOpts == 2

\* ------------------------------------------------------------------ keys
\* The tag keys post_processor.go names.  Only their being distinct matters.

SpanName == "span.name"
ServiceName == "service.name"
ResourceName == "resource.name"
SpanType == "span.type"
AnalyticsEvent == "analytics.event"
ManualDrop == "manual.drop"
ManualKeep == "manual.keep"
SamplingPriority == "sampling.priority"
keySamplingPriority == "_sampling_priority_v1"
EventSampleRate == "_dd1.sr.eausr"
HTTPCode == "http.status_code"
Environment == "env"
keyMeasured == "_dd.measured"
keyTopLevel == "_dd.top_level"
ErrorMsg == "error.msg"
ErrorType == "error.type"
ErrorStack == "error.stack"
ErrorDetails == "error.details"
\* Keys the view names nowhere: ext.Version, which the comment on SetTag lists
\* among the metric aggregator tags, and an ordinary user tag.
Version == "version"
CustomFlag == "custom.flag"

\* ---------------------------------------------------------------- values
\* interface{} values: a string, a float64 (integers here), a bool, or nil.

Str(x) == [kind |-> "string", s |-> x, n |-> 0, b |-> FALSE]
Num(x) == [kind |-> "float64", s |-> "", n |-> x, b |-> FALSE]
Bool(x) == [kind |-> "bool", s |-> "", n |-> 0, b |-> x]
Nil == [kind |-> "nil", s |-> "", n |-> 0, b |-> FALSE]

\* A Go map read: the zero value when the key is absent.
MetaAt(s, key) == IF key \in DOMAIN s.Meta THEN s.Meta[key] ELSE ""
MetricsAt(s, key) == IF key \in DOMAIN s.Metrics THEN s.Metrics[key] ELSE 0

\* ------------------------------------------------------- readWriteSpan.Tag

\* TagManualKeep comparing with 1, the automatic keep priority.
TagManualKeep_AutoKeep(s) == Bool(MetricsAt(s, keySamplingPriority) = 1)
\* The bool cases: a metric compared with the value that decides the tag.
TagManualKeep(s) == Bool(MetricsAt(s, keySamplingPriority) = 2)
TagManualDrop(s) == Bool(MetricsAt(s, keySamplingPriority) = -1)
TagAnalyticsEvent(s) == Bool(MetricsAt(s, EventSampleRate) = 1)

\* TagStored looking in Metrics before Meta.
TagStored_MetricsFirst(s, key) ==
    IF key \in DOMAIN s.Metrics THEN Num(s.Metrics[key])
    ELSE IF key \in DOMAIN s.Meta THEN Str(s.Meta[key])
    ELSE Nil
\* TagStored reading Metrics without the ok check: 0 for an absent key.
TagStored_ZeroValue(s, key) ==
    IF key \in DOMAIN s.Meta THEN Str(s.Meta[key])
    ELSE Num(MetricsAt(s, key))
\* After the switch: Meta first, then Metrics, else nil.
TagStored(s, key) ==
    IF key \in DOMAIN s.Meta THEN Str(s.Meta[key])
    ELSE IF key \in DOMAIN s.Metrics THEN Num(s.Metrics[key])
    ELSE Nil

\* Tag answering sampling.priority from the maps, like any stored key.
Tag_PublicStored(s, key) ==
    CASE key = SpanName -> Str(s.Name)
      [] key = ServiceName -> Str(s.Service)
      [] key = ResourceName -> Str(s.Resource)
      [] key = SpanType -> Str(s.Type)
      [] key = AnalyticsEvent -> TagAnalyticsEvent(s)
      [] key = ManualDrop -> TagManualDrop(s)
      [] key = ManualKeep -> TagManualKeep(s)
      [] key = keySamplingPriority ->
            IF keySamplingPriority \in DOMAIN s.Metrics
            THEN Num(s.Metrics[keySamplingPriority]) ELSE Nil
      [] OTHER -> TagStored(s, key)
\* Tag: the switch on the well-known keys, then the stored tags.
Tag(s, key) ==
    CASE key = SpanName -> Str(s.Name)
      [] key = ServiceName -> Str(s.Service)
      [] key = ResourceName -> Str(s.Resource)
      [] key = SpanType -> Str(s.Type)
      [] key = AnalyticsEvent -> TagAnalyticsEvent(s)
      [] key = ManualDrop -> TagManualDrop(s)
      [] key = ManualKeep -> TagManualKeep(s)
      [] key = SamplingPriority ->
            IF keySamplingPriority \in DOMAIN s.Metrics
            THEN Num(s.Metrics[keySamplingPriority]) ELSE Nil
      [] key = keySamplingPriority ->
            IF keySamplingPriority \in DOMAIN s.Metrics
            THEN Num(s.Metrics[keySamplingPriority]) ELSE Nil
      [] OTHER -> TagStored(s, key)

\* ------------------------------------------------------ the Get* accessors

GetName(s) == Str(s.Name)
GetService(s) == Str(s.Service)
GetResource(s) == Str(s.Resource)
GetType(s) == Str(s.Type)
GetDuration(s) == Num(s.Duration)
IsError(s) == Bool(s.Error = 1)
ErrorMessage(s) == Str(MetaAt(s, ErrorMsg))
ErrorTypeOf(s) == Str(MetaAt(s, ErrorType))
ErrorStackOf(s) == Str(MetaAt(s, ErrorStack))
ErrorDetailsOf(s) == Str(MetaAt(s, ErrorDetails))

\* ---------------------------------------------------- readWriteSpan.SetTag

\* m without key, and m with key bound to v.
MapDelete(m, key) == [x \in DOMAIN m \ {key} |-> m[x]]
MapPut(m, key, v) == [x \in DOMAIN m \cup {key} |-> IF x = key THEN v ELSE m[x]]

\* span.setTagLocked: the record's own tag-setting routine.  It stores the pair
\* in the string map for a textual value and in the numeric map for a number.
\* What becomes of an entry the other map holds under the same key is not
\* described; clear covers both outcomes (TRUE: the other map's entry goes).
setTagLocked(s, key, value, clear) ==
    IF value.kind = "string"
    THEN [s EXCEPT !.Meta = MapPut(s.Meta, key, value.s),
                   !.Metrics = IF clear THEN MapDelete(s.Metrics, key) ELSE @]
    ELSE [s EXCEPT !.Metrics = MapPut(s.Metrics, key, value.n),
                   !.Meta = IF clear THEN MapDelete(s.Meta, key) ELSE @]

\* ProtectedKeys with keyTopLevel left out of the case.
ProtectedKeys_NoTopLevel ==
    {SpanName, SpanType, ResourceName, ServiceName, HTTPCode, Environment,
     keyMeasured, AnalyticsEvent, EventSampleRate}
\* The first case of SetTag's switch: the keys it refuses.
ProtectedKeys ==
    {SpanName, SpanType, ResourceName, ServiceName, HTTPCode, Environment,
     keyMeasured, keyTopLevel, AnalyticsEvent, EventSampleRate}

\* SamplingKeys with keySamplingPriority left out of the case.
SamplingKeys_NoInternal == {ManualKeep, ManualDrop, SamplingPriority}
\* The second case: the sampling priority keys, refused as well.
SamplingKeys == {ManualKeep, ManualDrop, SamplingPriority, keySamplingPriority}

\* SetTag whose default case stores nothing.
SetTag_Dropped(s, key, value, clear) == s
\* SetTag: the two refusing cases, then setTagLocked.
SetTag(s, key, value, clear) ==
    IF key \in ProtectedKeys THEN s
    ELSE IF key \in SamplingKeys THEN s
    ELSE setTagLocked(s, key, value, clear)

\* SetOperationName writing the name into the span itself.
SetOperationName_Renames(s, operationName, clear) == [s EXCEPT !.Name = operationName]
\* SetOperationName is SetTag(ext.SpanName, operationName).
SetOperationName(s, operationName, clear) == SetTag(s, SpanName, Str(operationName), clear)

\* --------------------------------------------- the mux router's newConfig
\* float64 values: NaN, or a number counted in hundredths (100 is 1.0).

NaN == [nan |-> TRUE, v |-> 0]
Float(x) == [nan |-> FALSE, v |-> x]
IsNaN(f) == f.nan

\* tracer.Tag(key, value) as a start-span option.
StartSpanTag(key, value) == [key |-> key, value |-> value]

\* new(routerConfig): the zero value of the fields followed here.
\* headersAsTags is nil, or a map from header to tag name.
ZeroConfig ==
    [analyticsRate |-> Float(0), spanOpts |-> <<>>,
     headersAsTags |-> [nil |-> TRUE, m |-> <<>>]]

\* defaults: the analytics rate is 1.0 when DD_TRACE_MUX_ANALYTICS_ENABLED is
\* true, and else what globalconfig.AnalyticsRate() returns.
defaults(c, e) ==
    [c EXCEPT !.analyticsRate = IF e.analyticsEnabled THEN Float(100) ELSE e.globalRate]

\* What the option functions do to the configuration.
WithSpanOptions(so, c) == [c EXCEPT !.spanOpts = so]
WithAnalytics(on, c) == [c EXCEPT !.analyticsRate = IF on THEN Float(100) ELSE NaN]
\* WithAnalyticsRate that stores the rate without the range check.
WithAnalyticsRate_Unchecked(rate, c) == [c EXCEPT !.analyticsRate = rate]
\* rate >= 0.0 && rate <= 1.0, which is false for NaN.
WithAnalyticsRate(rate, c) ==
    [c EXCEPT !.analyticsRate =
        IF ~IsNaN(rate) /\ rate.v >= 0 /\ rate.v <= 100 THEN rate ELSE NaN]

\* Go strings the router takes apart are sequences of characters.
\* ext.HTTPRequestHeaders; only its being a fixed prefix matters.
HTTPRequestHeaders == <<"http.request.headers">>

\* strings.ToLower, on the letters used here.
ToLower(s) ==
    [i \in 1..Len(s) |->
        CASE s[i] = "A" -> "a"
          [] s[i] = "B" -> "b"
          [] s[i] = "X" -> "x"
          [] OTHER -> s[i]]

\* strings.TrimSpace: s without its leading and trailing spaces.
TrimSpace(s) ==
    LET inked == {i \in 1..Len(s) : s[i] # " "}
    IN  IF inked = {} THEN <<>>
        ELSE SubSeq(s, CHOOSE i \in inked : \A j \in inked : i <= j,
                       CHOOSE i \in inked : \A j \in inked : i >= j)

\* strings.Split(s, sep): the parts of s between the separators, in order;
\* one part, s itself, when s holds no separator.
RECURSIVE Split(_, _)
Split(s, sep) ==
    IF \E i \in 1..Len(s) : s[i] = sep
    THEN LET i == CHOOSE i \in 1..Len(s) : s[i] = sep /\ \A j \in 1..(i - 1) : s[j] # sep
         IN  <<SubSeq(s, 1, i - 1)>> \o Split(SubSeq(s, i + 1, Len(s)), sep)
    ELSE <<s>>

\* The loop of WithHeaderTags over the entries hs, writing into the map m.
RECURSIVE SetHeaders(_, _)
SetHeaders(m, hs) ==
    IF hs = <<>> THEN m
    ELSE LET headerAndTag == Split(Head(hs), ":")
             header == TrimSpace(ToLower(headerAndTag[1]))
             tag == IF Len(headerAndTag) > 1
                    THEN TrimSpace(ToLower(headerAndTag[2]))
                    ELSE HTTPRequestHeaders \o <<".">> \o header
         IN  SetHeaders(MapPut(m, header, tag), Tail(hs))

\* WithHeaderTags making a new map each time it is applied.
WithHeaderTags_Replaces(headersAsTags, c) ==
    [c EXCEPT !.headersAsTags = [nil |-> FALSE, m |-> SetHeaders(<<>>, headersAsTags)]]
\* WithHeaderTags: make the map if it is nil, then the loop over the entries.
WithHeaderTags(headersAsTags, c) ==
    [c EXCEPT !.headersAsTags =
        [nil |-> FALSE,
         m |-> SetHeaders(IF c.headersAsTags.nil THEN <<>> ELSE c.headersAsTags.m,
                          headersAsTags)]]

\* A RouterOption as a value: which function made it, and its argument.
HeaderOption(hs) ==
    [fn |-> "WithHeaderTags", on |-> FALSE, rate |-> NaN, spanOpts |-> <<>>,
     headersAsTags |-> hs]
Option(fn, on, rate, so) == [fn |-> fn, on |-> on, rate |-> rate, spanOpts |-> so]
\* fn(cfg) for an option fn.
Apply(fn, c) ==
    CASE fn.fn = "WithAnalytics" -> WithAnalytics(fn.on, c)
      [] fn.fn = "WithAnalyticsRate" -> WithAnalyticsRate(fn.rate, c)
      [] fn.fn = "WithSpanOptions" -> WithSpanOptions(fn.spanOpts, c)
      [] fn.fn = "WithHeaderTags" -> WithHeaderTags(fn.headersAsTags, c)

\* The end of newConfig: the event sample rate tag unless the rate is NaN.
WithRateTag(c) ==
    IF ~IsNaN(c.analyticsRate)
    THEN [c EXCEPT !.spanOpts = Append(c.spanOpts, StartSpanTag(EventSampleRate, c.analyticsRate))]
    ELSE c

\* The rates passed to WithAnalyticsRate: below 0, 0, 0.23, 1, above 1, NaN.
Rates == {Float(-50), Float(0), Float(23), Float(100), Float(150), NaN}
\* What globalconfig.AnalyticsRate() may return: NaN unless a rate was set.
GlobalRates == {NaN, Float(40)}
\* The entries passed to WithHeaderTags: "A", " a:X ", "b:y:z" and "B:".
HeaderEntries ==
    {<<"A">>, <<" ", "a", ":", "X", " ">>, <<"b", ":", "y", ":", "z">>, <<"B", ":">>}
\* The lists passed to WithHeaderTags: up to two entries.
HeaderLists == {<<>>} \cup {<<e>> : e \in HeaderEntries}
                \cup {<<e, f>> : e \in HeaderEntries, f \in HeaderEntries}
\* The options passed to newConfig.
Options ==
    {Option("WithAnalytics", on, NaN, <<>>) : on \in BOOLEAN}
    \cup {Option("WithAnalyticsRate", FALSE, rate, <<>>) : rate \in Rates}
    \cup {Option("WithSpanOptions", FALSE, NaN, <<StartSpanTag(CustomFlag, Float(100))>>)}
    \cup {HeaderOption(hs) : hs \in HeaderLists}

\* ------------------------------------------------------------------ state

VARIABLES
    heap,           \* heap[a]: the span record at address a (a *span points to it)
    heap0,          \* the records as the trace was finished (never changes)
    spans,          \* the batch given to runProcessor: a sequence of addresses
    postProcessor,  \* tr.config.postProcessor: "nil" or "set"
    pc,             \* runProcessor: "start", "processor" (inside the callback), "done"; "idle"
    rwSlice,        \* the views the processor received; a view holds a *span
    invoked,        \* how many times the processor has been invoked
    procRet,        \* what the processor returned: "none", "true", "false"
    result,         \* what runProcessor returned: "none", "true", "false"
    call,           \* the last completed view call: operation, arguments, result
    touched,        \* the views the processor has called SetTag/SetOperationName on
    mu,             \* mu[a]: the mutex of the record at a is locked
    thr,            \* thr[t]: where goroutine t is in the view call it is making
    env,            \* mux: what newConfig reads from outside (environment, globalconfig)
    opts,           \* mux: the options passed to newConfig, in order
    cfg,            \* mux: the routerConfig newConfig is building
    cpc,            \* mux: newConfig: "idle", "new", "opts", "done"
    applied         \* mux: how many of opts have been applied

vars == <<heap, heap0, spans, postProcessor, pc, rwSlice, invoked, procRet,
          result, call, touched, mu, thr, env, opts, cfg, cpc, applied>>

\* What the goroutines' steps leave alone, and what runProcessor's steps do.
seqVars == <<heap0, spans, postProcessor, pc, rwSlice, invoked, procRet, result,
             call, touched>>
concVars == <<mu, thr>>
\* The router's configuration, which the post-processor leaves alone.
muxVars == <<env, opts, cfg, cpc, applied>>

Goroutines == 1..MaxThreads
Idle == [pc |-> "idle", span |-> 0, op |-> "none"]

EmptyMap == [x \in {} |-> 0]

\* A finished span with nothing in its maps.
BaseSpan ==
    [Name |-> "http.request", Service |-> "web", Resource |-> "GET /",
     Type |-> "web", Duration |-> 10, Error |-> 0,
     Meta |-> EmptyMap, Metrics |-> EmptyMap]

\* The finished spans a trace is drawn from: every sampling priority the
\* tracer assigns (and none), analytics on, stored aggregator tags, an error.
SeedSpans ==
    << BaseSpan,
       [BaseSpan EXCEPT !.Metrics = (keySamplingPriority :> 2) @@ (EventSampleRate :> 1)],
       [BaseSpan EXCEPT !.Name = "", !.Metrics = (keySamplingPriority :> -1),
                        !.Meta = (Environment :> "prod") @@ (HTTPCode :> "200")],
       [BaseSpan EXCEPT !.Metrics = (keySamplingPriority :> 0) @@ (keyMeasured :> 1)
                                         @@ (keyTopLevel :> 1)],
       [BaseSpan EXCEPT !.Error = 1,
                        !.Metrics = (keySamplingPriority :> 1),
                        !.Meta = (ErrorMsg :> "boom") @@ (ErrorType :> "*errors.errorString")
                                    @@ (ErrorStack :> "main.go:1") @@ (ErrorDetails :> "d")] >>

\* The trace of n spans that starts at seed r and takes the seeds in turn.
Trace(r, n) == [i \in 1..n |-> SeedSpans[((r + i - 2) % Len(SeedSpans)) + 1]]

\* The keys and values the processor passes to Tag and SetTag.
\* Through the first view it uses every method and passes every key with a
\* string and with a number; through the other views it uses Tag and SetTag
\* with a refused key and the user tag, and a string.
CallKeys ==
    {SpanName, ServiceName, ResourceName, SpanType, AnalyticsEvent, ManualDrop,
     ManualKeep, SamplingPriority, keySamplingPriority, EventSampleRate, HTTPCode,
     Environment, keyMeasured, keyTopLevel, Version, CustomFlag}
CallValues == {Str("x"), Num(2)}
KeysFor(i) == IF i = 1 THEN CallKeys ELSE {SpanName, CustomFlag}
ValuesFor(i) == IF i = 1 THEN CallValues ELSE {Str("x")}
FullViews == {1}
\* setTagLocked's open choice, which matters only when SetTag gets that far.
ClearFor(key) == IF key \in ProtectedKeys \cup SamplingKeys THEN {FALSE} ELSE BOOLEAN
CallNames == {"renamed"}

\* No router is being configured.
NoRouter ==
    /\ env = [analyticsEnabled |-> FALSE, globalRate |-> NaN]
    /\ opts = <<>>
    /\ cfg = ZeroConfig
    /\ cpc = "idle"
    /\ applied = 0

NoCall == [op |-> "none", view |-> 0, key |-> "", value |-> Nil, ret |-> Nil, pre |-> BaseSpan]

Init ==
    /\ \E n \in 0..MaxSpans, r \in 1..Len(SeedSpans) :
         /\ heap = Trace(r, n)
         /\ spans = [i \in 1..n |-> i]
    /\ heap0 = heap
    /\ postProcessor \in {"nil", "set"}
    /\ pc = "start"
    /\ rwSlice = <<>>
    /\ invoked = 0
    /\ procRet = "none"
    /\ result = "none"
    /\ call = NoCall
    /\ touched = {}
    /\ mu = [a \in DOMAIN heap |-> FALSE]
    /\ thr = [t \in Goroutines |-> Idle]
    /\ NoRouter

\* ------------------------------------------------------------ runProcessor

\* newReadWriteSpanSlice with every view holding the last element's pointer.
newReadWriteSpanSlice_LastOnly(ss) == [i \in 1..Len(ss) |-> [span |-> ss[Len(ss)]]]
\* newReadWriteSpanSlice: one view per element of spans, in order, each
\* holding the element's pointer.
newReadWriteSpanSlice(ss) == [i \in 1..Len(ss) |-> [span |-> ss[i]]]

\* Decision that keeps the trace whatever the processor returned.
Decision_AlwaysKeep(ret) == "true"
\* The value runProcessor returns when a processor is registered.
Decision(ret) == ret

\* RunProcessorNil returning false.
RunProcessorNil_Drop ==
    /\ pc = "start"
    /\ postProcessor = "nil"
    /\ result' = "false"
    /\ pc' = "done"
    /\ UNCHANGED <<heap, heap0, spans, postProcessor, rwSlice, invoked, procRet,
                   call, touched, mu, thr>>
    /\ UNCHANGED muxVars
\* runProcessor with no processor registered: return true.
RunProcessorNil ==
    /\ pc = "start"
    /\ postProcessor = "nil"
    /\ result' = "true"
    /\ pc' = "done"
    /\ UNCHANGED <<heap, heap0, spans, postProcessor, rwSlice, invoked, procRet,
                   call, touched, mu, thr>>
    /\ UNCHANGED muxVars

\* RunProcessorCall locking every span of the batch before the call.
RunProcessorCall_Locking ==
    /\ pc = "start"
    /\ postProcessor # "nil"
    /\ rwSlice' = newReadWriteSpanSlice(spans)
    /\ invoked' = invoked + 1
    /\ pc' = "processor"
    /\ mu' = [a \in DOMAIN heap |-> \E i \in 1..Len(spans) : spans[i] = a]
    /\ UNCHANGED <<heap, heap0, spans, postProcessor, procRet, result, call, touched,
                   thr>>
    /\ UNCHANGED muxVars
\* runProcessor with a processor: build the views and call it.
RunProcessorCall ==
    /\ pc = "start"
    /\ postProcessor # "nil"
    /\ rwSlice' = newReadWriteSpanSlice(spans)
    /\ invoked' = invoked + 1
    /\ pc' = "processor"
    /\ UNCHANGED <<heap, heap0, spans, postProcessor, procRet, result, call, touched,
                   mu, thr>>
    /\ UNCHANGED muxVars

\* The processor returns ret, and runProcessor returns with it.
ProcessorReturn(ret) ==
    /\ pc = "processor"
    /\ procRet' = ret
    /\ result' = Decision(ret)
    /\ pc' = "done"
    /\ UNCHANGED <<heap, heap0, spans, postProcessor, rwSlice, invoked, call, touched,
                   mu, thr>>
    /\ UNCHANGED muxVars

\* --------------------------------------------- the processor's view calls
\* Each is one whole method call: s.Lock(), the body, the deferred s.Unlock().

\* A read through view i: the record is left alone.
Read(i, op, key, ret) ==
    /\ pc = "processor"
    /\ i \in 1..Len(rwSlice)
    /\ ~mu[rwSlice[i].span]
    /\ call' = [op |-> op, view |-> i, key |-> key, value |-> Nil, ret |-> ret,
                pre |-> heap[rwSlice[i].span]]
    /\ UNCHANGED <<heap, heap0, spans, postProcessor, pc, rwSlice, invoked,
                   procRet, result, touched, mu, thr>>
    /\ UNCHANGED muxVars

\* A write through view i that leaves the record as after.
Write(i, op, key, value, after) ==
    /\ pc = "processor"
    /\ i \in 1..Len(rwSlice)
    /\ ~mu[rwSlice[i].span]
    /\ heap' = [heap EXCEPT ![rwSlice[i].span] = after]
    /\ call' = [op |-> op, view |-> i, key |-> key, value |-> value, ret |-> Nil,
                pre |-> heap[rwSlice[i].span]]
    /\ touched' = touched \cup {i}
    /\ UNCHANGED <<heap0, spans, postProcessor, pc, rwSlice, invoked, procRet, result,
                   mu, thr>>
    /\ UNCHANGED muxVars

ViewTag(i, key) ==
    i \in 1..Len(rwSlice) /\ Read(i, "Tag", key, Tag(heap[rwSlice[i].span], key))
ViewGetName(i) ==
    i \in 1..Len(rwSlice) /\ Read(i, "GetName", "", GetName(heap[rwSlice[i].span]))
ViewGetService(i) ==
    i \in 1..Len(rwSlice) /\ Read(i, "GetService", "", GetService(heap[rwSlice[i].span]))
ViewGetResource(i) ==
    i \in 1..Len(rwSlice) /\ Read(i, "GetResource", "", GetResource(heap[rwSlice[i].span]))
ViewGetType(i) ==
    i \in 1..Len(rwSlice) /\ Read(i, "GetType", "", GetType(heap[rwSlice[i].span]))
ViewGetDuration(i) ==
    i \in 1..Len(rwSlice) /\ Read(i, "GetDuration", "", GetDuration(heap[rwSlice[i].span]))
ViewIsError(i) ==
    i \in 1..Len(rwSlice) /\ Read(i, "IsError", "", IsError(heap[rwSlice[i].span]))
ViewErrorMessage(i) ==
    i \in 1..Len(rwSlice) /\ Read(i, "ErrorMessage", "", ErrorMessage(heap[rwSlice[i].span]))
ViewErrorType(i) ==
    i \in 1..Len(rwSlice) /\ Read(i, "ErrorType", "", ErrorTypeOf(heap[rwSlice[i].span]))
ViewErrorStack(i) ==
    i \in 1..Len(rwSlice) /\ Read(i, "ErrorStack", "", ErrorStackOf(heap[rwSlice[i].span]))
ViewErrorDetails(i) ==
    i \in 1..Len(rwSlice) /\ Read(i, "ErrorDetails", "", ErrorDetailsOf(heap[rwSlice[i].span]))
ViewSetTag(i, key, value, clear) ==
    i \in 1..Len(rwSlice)
    /\ Write(i, "SetTag", key, value, SetTag(heap[rwSlice[i].span], key, value, clear))
ViewSetOperationName(i, name, clear) ==
    i \in 1..Len(rwSlice)
    /\ Write(i, "SetOperationName", SpanName, Str(name),
             SetOperationName(heap[rwSlice[i].span], name, clear))

Next ==
    \/ RunProcessorNil
    \/ RunProcessorCall
    \/ \E ret \in {"true", "false"} : ProcessorReturn(ret)
    \/ \E i \in 1..MaxSpans :
         \/ \E key \in KeysFor(i) : ViewTag(i, key)
         \/ \E key \in KeysFor(i), value \in ValuesFor(i) : \E clear \in ClearFor(key) :
                ViewSetTag(i, key, value, clear)
    \/ \E i \in FullViews :
         \/ \E name \in CallNames, clear \in ClearFor(SpanName) :
                ViewSetOperationName(i, name, clear)
         \/ ViewGetName(i)
         \/ ViewGetService(i)
         \/ ViewGetResource(i)
         \/ ViewGetType(i)
         \/ ViewGetDuration(i)
         \/ ViewIsError(i)
         \/ ViewErrorMessage(i)
         \/ ViewErrorType(i)
         \/ ViewErrorStack(i)
         \/ ViewErrorDetails(i)

Spec == Init /\ [][Next]_vars

\* ------------------------------------------------- concurrent view calls
\* The processor has been called and goroutines it started use the views at
\* the same time.  A view call is two steps: s.Lock() returns; then the body
\* runs and the deferred s.Unlock() with it as the method returns.

\* The operations of the view.  Each begins with s.Lock(); defer s.Unlock(),
\* SetOperationName by calling SetTag, so each runs its body with the lock of
\* the record held.
ViewOps ==
    {"Tag", "GetName", "GetService", "GetResource", "GetType", "GetDuration",
     "IsError", "ErrorMessage", "ErrorType", "ErrorStack", "ErrorDetails",
     "SetOperationName", "SetTag"}
\* LockedOps with Tag reading the record without the lock.
LockedOps_TagUnlocked == ViewOps \ {"Tag"}
\* The operations that take the record's lock before their body.
LockedOps == ViewOps

\* The keys and values the goroutines pass: a protected key, a sampling
\* priority key and the user tag.
ConcKeys == {SpanName, ManualKeep, CustomFlag}
ConcValues == {Str("x")}

\* What a method hands back: an interface{} value.
Returns(ret) == ret.kind \in {"string", "float64", "bool", "nil"}

InitConc ==
    /\ heap = Trace(1, MaxSpans)
    /\ heap0 = heap
    /\ spans = [i \in DOMAIN heap |-> i]
    /\ postProcessor = "set"
    /\ pc = "processor"
    /\ rwSlice = newReadWriteSpanSlice(spans)
    /\ invoked = 1
    /\ procRet = "none"
    /\ result = "none"
    /\ call = NoCall
    /\ touched = {}
    /\ mu = [a \in DOMAIN heap |-> FALSE]
    /\ thr = [t \in Goroutines |-> Idle]
    /\ NoRouter

\* Goroutine t calls op on view i and s.Lock() returns: the mutex was free
\* and is now locked.
Lock(t, i, op) ==
    /\ thr[t].pc = "idle"
    /\ i \in 1..Len(rwSlice)
    /\ IF op \in LockedOps
       THEN /\ ~mu[rwSlice[i].span]
            /\ mu' = [mu EXCEPT ![rwSlice[i].span] = TRUE]
       ELSE UNCHANGED mu
    /\ thr' = [thr EXCEPT ![t] = [pc |-> "body", span |-> rwSlice[i].span, op |-> op]]
    /\ UNCHANGED <<heap, seqVars>>
    /\ UNCHANGED muxVars

\* Unlock that leaves the mutex locked.
Unlock_Held(t) == mu
\* The deferred s.Unlock() of goroutine t's call.
Unlock(t) ==
    IF thr[t].op \in LockedOps THEN [mu EXCEPT ![thr[t].span] = FALSE] ELSE mu

\* The body of a reading method and its return.
BodyRead(t, op, ret) ==
    /\ thr[t].pc = "body"
    /\ thr[t].op = op
    /\ Returns(ret)
    /\ mu' = Unlock(t)
    /\ thr' = [thr EXCEPT ![t] = Idle]
    /\ UNCHANGED <<heap, seqVars>>
    /\ UNCHANGED muxVars

\* The body of a writing method, which leaves the record as after, and its
\* return.
BodyWrite(t, op, after) ==
    /\ thr[t].pc = "body"
    /\ thr[t].op = op
    /\ heap' = [heap EXCEPT ![thr[t].span] = after]
    /\ mu' = Unlock(t)
    /\ thr' = [thr EXCEPT ![t] = Idle]
    /\ UNCHANGED seqVars
    /\ UNCHANGED muxVars

BodyTag(t, key) == thr[t].pc = "body" /\ BodyRead(t, "Tag", Tag(heap[thr[t].span], key))
BodyGetName(t) == thr[t].pc = "body" /\ BodyRead(t, "GetName", GetName(heap[thr[t].span]))
BodyGetService(t) == thr[t].pc = "body" /\ BodyRead(t, "GetService", GetService(heap[thr[t].span]))
BodyGetResource(t) == thr[t].pc = "body" /\ BodyRead(t, "GetResource", GetResource(heap[thr[t].span]))
BodyGetType(t) == thr[t].pc = "body" /\ BodyRead(t, "GetType", GetType(heap[thr[t].span]))
BodyGetDuration(t) == thr[t].pc = "body" /\ BodyRead(t, "GetDuration", GetDuration(heap[thr[t].span]))
BodyIsError(t) == thr[t].pc = "body" /\ BodyRead(t, "IsError", IsError(heap[thr[t].span]))
BodyErrorMessage(t) == thr[t].pc = "body" /\ BodyRead(t, "ErrorMessage", ErrorMessage(heap[thr[t].span]))
BodyErrorType(t) == thr[t].pc = "body" /\ BodyRead(t, "ErrorType", ErrorTypeOf(heap[thr[t].span]))
BodyErrorStack(t) == thr[t].pc = "body" /\ BodyRead(t, "ErrorStack", ErrorStackOf(heap[thr[t].span]))
BodyErrorDetails(t) == thr[t].pc = "body" /\ BodyRead(t, "ErrorDetails", ErrorDetailsOf(heap[thr[t].span]))
BodySetTag(t, key, value, clear) ==
    thr[t].pc = "body" /\ BodyWrite(t, "SetTag", SetTag(heap[thr[t].span], key, value, clear))
BodySetOperationName(t, name, clear) ==
    thr[t].pc = "body"
    /\ BodyWrite(t, "SetOperationName", SetOperationName(heap[thr[t].span], name, clear))

NextConc ==
    \E t \in Goroutines :
        \/ \E i \in 1..MaxSpans, op \in ViewOps : Lock(t, i, op)
        \/ \E key \in ConcKeys : BodyTag(t, key)
        \/ \E key \in ConcKeys, value \in ConcValues : \E clear \in ClearFor(key) :
               BodySetTag(t, key, value, clear)
        \/ \E name \in CallNames, clear \in ClearFor(SpanName) :
               BodySetOperationName(t, name, clear)
        \/ BodyGetName(t)
        \/ BodyGetService(t)
        \/ BodyGetResource(t)
        \/ BodyGetType(t)
        \/ BodyGetDuration(t)
        \/ BodyIsError(t)
        \/ BodyErrorMessage(t)
        \/ BodyErrorType(t)
        \/ BodyErrorStack(t)
        \/ BodyErrorDetails(t)

SpecConc == InitConc /\ [][NextConc]_vars

\* ------------------------------------------- callers that read, then write
\* As above, with goroutines that keep what Tag returned and go on to set the
\* tag they read:
\*     v := view.Tag(key); ...; view.SetTag(key, w)
\* thr[t] then also holds the key and the value read, got, and call holds the
\* last SetTag that has returned.

\* The view these goroutines share, and the keys and values they pass: a
\* protected key, a sampling priority key and the user tag.
PairViews == {1}
PairKeys == {SpanName, ManualKeep, CustomFlag}
PairValues == {Str("x"), Num(2)}

\* The view that holds the record at a.
ViewOf(a) == CHOOSE i \in 1..Len(rwSlice) : rwSlice[i].span = a

\* Tag's body and return in goroutine t, which keeps the result.
PairTag(t, key) ==
    /\ thr[t].pc = "body"
    /\ thr[t].op = "Tag"
    /\ mu' = Unlock(t)
    /\ thr' = [thr EXCEPT ![t] = [pc |-> "read", span |-> thr[t].span, op |-> "Tag",
                                  key |-> key, got |-> Tag(heap[thr[t].span], key)]]
    /\ UNCHANGED <<heap, seqVars>>
    /\ UNCHANGED muxVars

\* Goroutine t, having read, calls SetTag on the same view and s.Lock()
\* returns.
PairLock(t) ==
    /\ thr[t].pc = "read"
    /\ IF "SetTag" \in LockedOps
       THEN /\ ~mu[thr[t].span]
            /\ mu' = [mu EXCEPT ![thr[t].span] = TRUE]
       ELSE UNCHANGED mu
    /\ thr' = [thr EXCEPT ![t] = [thr[t] EXCEPT !.pc = "body", !.op = "SetTag"]]
    /\ UNCHANGED <<heap, seqVars>>
    /\ UNCHANGED muxVars

\* SetTag's body and return in goroutine t; after a read the key is the key
\* that was read.
PairSetTag(t, key, value, clear) ==
    /\ thr[t].pc = "body"
    /\ thr[t].op = "SetTag"
    /\ ("got" \in DOMAIN thr[t]) => key = thr[t].key
    /\ heap' = [heap EXCEPT ![thr[t].span] = SetTag(heap[thr[t].span], key, value, clear)]
    /\ mu' = Unlock(t)
    /\ thr' = [thr EXCEPT ![t] = Idle]
    /\ call' = [op |-> "SetTag", view |-> ViewOf(thr[t].span), key |-> key, value |-> value,
                ret |-> Nil, pre |-> heap[thr[t].span]]
    /\ UNCHANGED <<heap0, spans, postProcessor, pc, rwSlice, invoked, procRet, result,
                   touched>>
    /\ UNCHANGED muxVars

NextPair ==
    \E t \in Goroutines :
        \/ \E i \in PairViews, op \in ViewOps : Lock(t, i, op)
        \/ \E key \in PairKeys : PairTag(t, key)
        \/ PairLock(t)
        \/ \E key \in PairKeys, value \in PairValues : \E clear \in ClearFor(key) :
               PairSetTag(t, key, value, clear)
        \/ \E name \in CallNames, clear \in ClearFor(SpanName) :
               BodySetOperationName(t, name, clear)
        \/ BodyGetName(t)
        \/ BodyGetService(t)
        \/ BodyGetResource(t)
        \/ BodyGetType(t)
        \/ BodyGetDuration(t)
        \/ BodyIsError(t)
        \/ BodyErrorMessage(t)
        \/ BodyErrorType(t)
        \/ BodyErrorStack(t)
        \/ BodyErrorDetails(t)

SpecPair == InitConc /\ [][NextPair]_vars

\* ------------------------------------------------------- mux: newConfig
\* newConfig(opts) step by step: new(routerConfig) and defaults(cfg); fn(cfg)
\* for each option in order; then the tag, and return.

\* No trace is being processed.
NoTrace ==
    /\ heap = <<>>
    /\ heap0 = <<>>
    /\ spans = <<>>
    /\ postProcessor = "nil"
    /\ pc = "idle"
    /\ rwSlice = <<>>
    /\ invoked = 0
    /\ procRet = "none"
    /\ result = "none"
    /\ call = NoCall
    /\ touched = {}
    /\ mu = <<>>
    /\ thr = [t \in Goroutines |-> Idle]

InitMux ==
    /\ NoTrace
    /\ env \in [analyticsEnabled : BOOLEAN, globalRate : GlobalRates]
    /\ opts \in UNION {[1..n -> Options] : n \in 0..MaxOpts}
    /\ cfg = ZeroConfig
    /\ cpc = "new"
    /\ applied = 0

NewConfigDefaults ==
    /\ cpc = "new"
    /\ cfg' = defaults(ZeroConfig, env)
    /\ cpc' = "opts"
    /\ UNCHANGED <<env, opts, applied, heap, seqVars, concVars>>

NewConfigOption ==
    /\ cpc = "opts"
    /\ applied < Len(opts)
    /\ cfg' = Apply(opts[applied + 1], cfg)
    /\ applied' = applied + 1
    /\ UNCHANGED <<env, opts, cpc, heap, seqVars, concVars>>

NewConfigReturn ==
    /\ cpc = "opts"
    /\ applied = Len(opts)
    /\ cfg' = WithRateTag(cfg)
    /\ cpc' = "done"
    /\ UNCHANGED <<env, opts, applied, heap, seqVars, concVars>>

NextMux ==
    \/ NewConfigDefaults
    \/ NewConfigOption
    \/ NewConfigReturn

SpecMux == InitMux /\ [][NextMux]_vars

\* ================================================================ claims
\* The key lists below are written out from the statements they belong to,
\* apart from the sets SetTag itself consults.

\* The record the last view call went to, as it is now.
Target == heap[rwSlice[call.view].span]

ClaimProtected ==
    {"span.name", "span.type", "resource.name", "service.name", "http.status_code",
     "env", "_dd.measured", "_dd.top_level", "analytics.event", "_dd1.sr.eausr"}
ClaimSampling == {"manual.keep", "manual.drop", "sampling.priority", "_sampling_priority_v1"}

\* Every accessor of the view returns the same on records a and b.
SameAccessors(a, b) ==
    /\ GetName(a) = GetName(b) /\ GetService(a) = GetService(b)
    /\ GetResource(a) = GetResource(b) /\ GetType(a) = GetType(b)
    /\ GetDuration(a) = GetDuration(b) /\ IsError(a) = IsError(b)
    /\ ErrorMessage(a) = ErrorMessage(b) /\ ErrorTypeOf(a) = ErrorTypeOf(b)
    /\ ErrorStackOf(a) = ErrorStackOf(b) /\ ErrorDetailsOf(a) = ErrorDetailsOf(b)
    /\ \A key \in CallKeys : Tag(a, key) = Tag(b, key)

\* C1: SetTag with a protected key leaves the span as it was: Name, Service,
\* Resource, Type, Meta and Metrics are those from before the call, and every
\* accessor returns what it returned before, whatever calls came earlier.
C1_ProtectedKeyUnchanged ==
    (call.op = "SetTag" /\ call.key \in ClaimProtected) =>
        /\ Target.Name = call.pre.Name
        /\ Target.Service = call.pre.Service
        /\ Target.Resource = call.pre.Resource
        /\ Target.Type = call.pre.Type
        /\ Target.Meta = call.pre.Meta
        /\ Target.Metrics = call.pre.Metrics
        /\ SameAccessors(Target, call.pre)

\* C1 witness: a protected key is set with a number on a span an earlier call
\* had already written the user tag to.
C1_Witness ==
    /\ call.op = "SetTag"
    /\ call.key = keyTopLevel
    /\ call.value = Num(2)
    /\ CustomFlag \in DOMAIN call.pre.Meta

FreeKey(key) == key \notin ClaimProtected /\ key \notin ClaimSampling

\* Tag(key) directly after SetTag(key, value) through the same view.
TagFollowsSetTag ==
    /\ call.op = "SetTag"
    /\ FreeKey(call.key)
    /\ call'.op = "Tag"
    /\ call'.view = call.view
    /\ call'.key = call.key

InNeitherMap(s, key) == key \notin DOMAIN s.Meta /\ key \notin DOMAIN s.Metrics

\* C3 as stated: Tag of a key in neither map returns nil, the well-known keys
\* included.
C3_AbsentIsNilAllKeys ==
    (call.op = "Tag" /\ InNeitherMap(call.pre, call.key)) => call.ret = Nil

\* The keys Tag answers from the span's fields or from another key's metric.
ClaimDerived ==
    {"span.name", "service.name", "resource.name", "span.type", "analytics.event",
     "manual.drop", "manual.keep", "sampling.priority"}

\* C3 amended: Tag of a key in neither map returns nil, unless the key is one
\* of the eight Tag derives from the span's fields or from another metric.
C3_AbsentIsNil ==
    (call.op = "Tag" /\ call.key \notin ClaimDerived /\ InNeitherMap(call.pre, call.key))
        => call.ret = Nil

\* C3 witness: Tag of the internal priority key on a span without it.
C3_Witness ==
    /\ call.op = "Tag"
    /\ call.key = keySamplingPriority
    /\ InNeitherMap(call.pre, keySamplingPriority)
    /\ call.ret = Nil

\* The sampling priority metric of s is present and equals n.
PriorityIs(s, n) ==
    "_sampling_priority_v1" \in DOMAIN s.Metrics /\ s.Metrics["_sampling_priority_v1"] = n

\* C4: Tag(manual.keep) is true exactly when the priority metric is 2 and
\* Tag(manual.drop) exactly when it is -1; otherwise (the metric absent too)
\* they are false, and no span has both true.
C4_DerivedBooleans ==
    /\ (call.op = "Tag" /\ call.key = "manual.keep") =>
          call.ret = Bool(PriorityIs(call.pre, 2))
    /\ (call.op = "Tag" /\ call.key = "manual.drop") =>
          call.ret = Bool(PriorityIs(call.pre, -1))
    /\ \A a \in DOMAIN heap :
          ~(Tag(heap[a], "manual.keep") = Bool(TRUE) /\ Tag(heap[a], "manual.drop") = Bool(TRUE))

\* C4 witness: Tag(manual.keep) returns true on a span of priority 2.
C4_Witness ==
    /\ call.op = "Tag"
    /\ call.key = ManualKeep
    /\ call.ret = Bool(TRUE)
    /\ PriorityIs(call.pre, 2)

\* C5: SetTag with a sampling priority key returns and changes what Tag
\* returns for none of the four sampling priority keys.
C5_SamplingKeyNoEffect ==
    (call.op = "SetTag" /\ call.key \in ClaimSampling) =>
        \A key \in ClaimSampling : Tag(Target, key) = Tag(call.pre, key)

\* C5 witness: the internal priority key is set to 2 on a span of priority -1.
C5_Witness ==
    /\ call.op = "SetTag"
    /\ call.key = keySamplingPriority
    /\ call.value = Num(2)
    /\ PriorityIs(call.pre, -1)
    /\ Tag(Target, ManualDrop) = Bool(TRUE)

C7_DecisionIsProcessors ==
    (postProcessor = "set" /\ pc = "done") =>
        /\ procRet \in {"true", "false"}
        /\ result = procRet

\* C7 witness: the processor set a tag and returned false, and the trace is
\* dropped.
C7_Witness ==
    /\ postProcessor = "set"
    /\ pc = "done"
    /\ touched # {}
    /\ procRet = "false"
    /\ result = "false"

\* C8: one call of runProcessor invokes the processor exactly once, with as
\* many views as the batch has spans, the i-th view holding the i-th span's
\* own pointer.
C8_OneCallOrderedViews ==
    /\ invoked <= 1
    /\ pc = "start" => invoked = 0
    /\ (postProcessor = "set" /\ pc \in {"processor", "done"}) =>
          /\ invoked = 1
          /\ Len(rwSlice) = Len(spans)
          /\ \A i \in 1..Len(spans) : rwSlice[i].span = spans[i]

\* C8 witness: the processor has returned after being given two views.
C8_Witness ==
    /\ postProcessor = "set"
    /\ pc = "done"
    /\ invoked = 1
    /\ Len(rwSlice) >= 2

\* The record s stores value under key in the map for the value's type.
Holds(s, key, value) ==
    IF value.kind = "string"
    THEN key \in DOMAIN s.Meta /\ s.Meta[key] = value.s
    ELSE key \in DOMAIN s.Metrics /\ s.Metrics[key] = value.n

\* C9: if the processor's writes all went through view i, the last of them
\* SetTag(k, v) with a free key, and it returned true, then runProcessor
\* returns true, span i's record holds k = v and every other record of the
\* batch is as it was before the dispatch.
C9_WriteReachesOnlyItsRecord ==
    (/\ pc = "done"
     /\ call.op = "SetTag"
     /\ FreeKey(call.key)
     /\ touched = {call.view}
     /\ procRet = "true") =>
        /\ result = "true"
        /\ Holds(heap[spans[call.view]], call.key, call.value)
        /\ \A j \in 1..Len(spans) : j # call.view => heap[spans[j]] = heap0[spans[j]]

\* C9 witness: custom.flag = "x" was set through the second view only and
\* the trace kept.
C9_Witness ==
    /\ pc = "done"
    /\ call.op = "SetTag"
    /\ call.view = 2
    /\ call.key = CustomFlag
    /\ call.value = Str("x")
    /\ touched = {2}
    /\ result = "true"

\* The goroutines that are between s.Lock() and s.Unlock() on the record at a.
Inside(a) == {t \in Goroutines : thr[t].pc = "body" /\ thr[t].span = a}

\* C10: at any time at most one view operation, of whatever goroutine and
\* through whatever view, is reading or writing the fields of a record, and
\* it holds the record's mutex.
C10_MutualExclusion ==
    \A a \in DOMAIN heap :
        /\ Cardinality(Inside(a)) <= 1
        /\ Inside(a) # {} => mu[a]

\* C10 witness: goroutine 1 is in the body of SetTag on the first record, and
\* goroutine 2 cannot get into Tag on that record but can on the other.
C10_Witness ==
    /\ thr[1].pc = "body"
    /\ thr[1].op = "SetTag"
    /\ thr[1].span = 1
    /\ thr[2].pc = "idle"
    /\ ~ENABLED Lock(2, 1, "Tag")
    /\ ENABLED Lock(2, 2, "Tag")

\* C11: whenever no view operation is in progress on a record, the record's
\* mutex is free: every operation has released it on return, on the early
\* returns of SetTag and Tag as on every other path.
C11_LockFreeWhenNoCall ==
    \A a \in DOMAIN heap : Inside(a) = {} => ~mu[a]

\* C11 witness: SetTag has returned early for the span name, goroutine 1 has
\* returned from Tag(manual.keep) with a bool, nobody is inside a method on
\* the record and its mutex is free.
C11_Witness ==
    /\ call.op = "SetTag"
    /\ call.key = SpanName
    /\ Target = call.pre
    /\ thr[1].pc = "read"
    /\ thr[1].key = ManualKeep
    /\ thr[1].got.kind = "bool"
    /\ Inside(thr[1].span) = {}
    /\ ~mu[thr[1].span]

\* Goroutine t's call runs its body and returns.
Finishes(t) ==
    \/ \E key \in ConcKeys : BodyTag(t, key)
    \/ \E key \in ConcKeys, value \in ConcValues, clear \in BOOLEAN :
           BodySetTag(t, key, value, clear)
    \/ \E name \in CallNames, clear \in BOOLEAN : BodySetOperationName(t, name, clear)
    \/ BodyGetName(t) \/ BodyGetService(t) \/ BodyGetResource(t) \/ BodyGetType(t)
    \/ BodyGetDuration(t) \/ BodyIsError(t) \/ BodyErrorMessage(t) \/ BodyErrorType(t)
    \/ BodyErrorStack(t) \/ BodyErrorDetails(t)

\* C12: views of distinct records share no lock.  Any operation on the view of
\* the batch's i-th span can start whenever no operation is in progress on
\* that span's own record, whatever is in progress or stalled on the other
\* records, and an operation that has started can always run to its return.
C12_DistinctRecordsIndependent ==
    \A t \in Goroutines :
        /\ thr[t].pc = "idle" =>
              \A i \in 1..Len(spans), op \in ViewOps :
                  Inside(spans[i]) = {} => ENABLED Lock(t, i, op)
        /\ thr[t].pc = "body" => ENABLED Finishes(t)

\* C12 witness: goroutine 1 is stalled in SetTag holding the first record's
\* mutex while goroutine 2 has started Tag on the second record and can
\* return from it.
C12_Witness ==
    /\ thr[1].pc = "body"
    /\ thr[1].op = "SetTag"
    /\ thr[1].span = spans[1]
    /\ mu[spans[1]]
    /\ thr[2].pc = "body"
    /\ thr[2].op = "Tag"
    /\ thr[2].span = spans[2]
    /\ ENABLED BodyTag(2, CustomFlag)

\* C13: while the processor runs, runProcessor holds the mutex of no span,
\* and each method takes its record's mutex once; so at every point of a
\* processor that makes its view calls one after another, on whatever views
\* of its batch and after whatever calls, each method of each view can be
\* called and returns.
C13_CallbackNeverBlocks ==
    pc = "processor" =>
        /\ \A a \in DOMAIN heap : ~mu[a]
        /\ \A i \in 1..Len(rwSlice) :
              /\ \A key \in CallKeys : ENABLED ViewTag(i, key)
              /\ \A key \in CallKeys : ENABLED ViewSetTag(i, key, Str("x"), FALSE)
              /\ ENABLED ViewSetOperationName(i, "renamed", FALSE)
              /\ ENABLED ViewGetName(i) /\ ENABLED ViewGetService(i)
              /\ ENABLED ViewGetResource(i) /\ ENABLED ViewGetType(i)
              /\ ENABLED ViewGetDuration(i) /\ ENABLED ViewIsError(i)
              /\ ENABLED ViewErrorMessage(i) /\ ENABLED ViewErrorType(i)
              /\ ENABLED ViewErrorStack(i) /\ ENABLED ViewErrorDetails(i)

\* C13 witness: the processor has called SetOperationName on the first view
\* after writing through both views, and can call SetTag on either again.
C13_Witness ==
    /\ pc = "processor"
    /\ call.op = "SetOperationName"
    /\ touched = {1, 2}
    /\ ENABLED ViewSetTag(1, CustomFlag, Str("x"), FALSE)
    /\ ENABLED ViewSetTag(2, CustomFlag, Str("x"), FALSE)

\* C14: Tag(k) followed by SetTag on the same record is not atomic as a pair.
\* Once a goroutine's Tag has returned it holds the record's mutex no longer:
\* whenever it is between the two calls and nobody is inside a method on the
\* record, any other idle goroutine's SetTag on that record can start, and so
\* take effect before the reader's own SetTag.
C14_ReadThenWriteNotAtomic ==
    \A t \in Goroutines, u \in Goroutines :
        (/\ t # u
         /\ thr[t].pc = "read"
         /\ thr[u].pc = "idle"
         /\ Inside(thr[t].span) = {}) =>
            ENABLED Lock(u, ViewOf(thr[t].span), "SetTag")

\* C14 witness: goroutine 1 read custom.flag when the record did not hold it
\* and is now inside its own SetTag, while another goroutine's
\* SetTag(custom.flag, "x") has taken effect in between: Tag would now
\* return "x", not the value goroutine 1 read.
C14_Witness ==
    /\ thr[1].pc = "body"
    /\ thr[1].op = "SetTag"
    /\ "got" \in DOMAIN thr[1]
    /\ thr[1].key = CustomFlag
    /\ thr[1].got = Nil
    /\ call.op = "SetTag"
    /\ call.key = CustomFlag
    /\ call.value = Str("x")
    /\ rwSlice[call.view].span = thr[1].span
    /\ InNeitherMap(call.pre, CustomFlag)
    /\ Tag(heap[thr[1].span], CustomFlag) = Str("x")

\* Goroutine t returns from a Tag that started after the last SetTag returned,
\* on the record and for the free key of that SetTag.
TagReturnsAfterSetTag(t) ==
    /\ call.op = "SetTag"
    /\ FreeKey(call.key)
    /\ thr[t].pc = "body"
    /\ thr[t].op = "Tag"
    /\ thr[t].span = rwSlice[call.view].span
    /\ thr'[t].pc = "read"
    /\ thr'[t].key = call.key

C16_SetOperationNameIsSetTag ==
    (call.op = "SetOperationName") =>
        /\ \A clear \in BOOLEAN : Target = SetTag(call.pre, "span.name", call.value, clear)
        /\ Target = call.pre
        /\ GetName(Target) = GetName(call.pre)

\* C16 witness: SetOperationName("renamed") has returned on a span that an
\* earlier call wrote the user tag to, and the span is still "http.request".
C16_Witness ==
    /\ call.op = "SetOperationName"
    /\ call.value = Str("renamed")
    /\ CustomFlag \in DOMAIN call.pre.Meta
    /\ call.pre.Name = "http.request"
    /\ GetName(Target) = Str("http.request")

\* The metric aggregator tags the comment on SetTag lists.
ClaimAggregator ==
    {"span.name", "env", "service.name", "version", "resource.name", "http.status_code",
     "_dd.measured"}

\* C17: SetTag with a metric aggregator tag (name, env, service, version,
\* resource, http.status_code, the measured marker) leaves the span's Meta,
\* Metrics and named fields as they were.
C17_AggregatorKeysRefused ==
    (call.op = "SetTag" /\ call.key \in ClaimAggregator) =>
        /\ Target.Meta = call.pre.Meta
        /\ Target.Metrics = call.pre.Metrics
        /\ Target.Name = call.pre.Name
        /\ Target.Service = call.pre.Service
        /\ Target.Resource = call.pre.Resource
        /\ Target.Type = call.pre.Type

WithPublicPriority(s) ==
    {s,
     [s EXCEPT !.Meta = MapPut(s.Meta, "sampling.priority", "1")],
     [s EXCEPT !.Metrics = MapPut(s.Metrics, "sampling.priority", 1)],
     [s EXCEPT !.Meta = MapPut(s.Meta, "sampling.priority", "1"),
               !.Metrics = MapPut(s.Metrics, "sampling.priority", 1)]}

\* What the internal priority key's metric gives: its value, or nil.
StoredPriority(s) ==
    IF "_sampling_priority_v1" \in DOMAIN s.Metrics
    THEN Num(s.Metrics["_sampling_priority_v1"]) ELSE Nil

\* C19: Tag(sampling.priority) and Tag(_sampling_priority_v1) return the same:
\* the number Metrics holds under the internal key when it holds one, 0
\* included, and nil when it does not, whatever Meta or Metrics hold under
\* sampling.priority itself.
C19_PriorityKeysAgree ==
    /\ (call.op = "Tag" /\ call.key \in {"sampling.priority", "_sampling_priority_v1"})
          => call.ret = StoredPriority(call.pre)
    /\ \A a \in DOMAIN heap : \A s \in WithPublicPriority(heap[a]) :
          /\ Tag(s, "sampling.priority") = StoredPriority(heap[a])
          /\ Tag(s, "_sampling_priority_v1") = StoredPriority(heap[a])

\* C19 witness: Tag(sampling.priority) returns 0 on a span whose internal
\* priority metric is 0.
C19_Witness ==
    /\ call.op = "Tag"
    /\ call.key = SamplingPriority
    /\ PriorityIs(call.pre, 0)
    /\ call.ret = Num(0)
    /\ Tag(call.pre, keySamplingPriority) = Num(0)

\* The analytics options among os, in order.
AnalyticsOptions(os) ==
    SelectSeq(os, LAMBDA o : o.fn \in {"WithAnalytics", "WithAnalyticsRate"})

\* The rate one analytics option asks for; NaN stands for disabled.
Asked(o) ==
    IF o.fn = "WithAnalytics" THEN (IF o.on THEN Float(100) ELSE NaN)
    ELSE IF ~o.rate.nan /\ 0 <= o.rate.v /\ o.rate.v <= 100 THEN o.rate
    ELSE NaN

\* The rate in force after the defaults and the options os: that of the last
\* analytics option, or the default when there is none.
Configured(os, e) ==
    IF AnalyticsOptions(os) # <<>>
    THEN Asked(AnalyticsOptions(os)[Len(AnalyticsOptions(os))])
    ELSE IF e.analyticsEnabled THEN Float(100) ELSE e.globalRate

\* The event sample rate tags among the span options so.
RateTags(so) == SelectSeq(so, LAMBDA o : o.key = "_dd1.sr.eausr")

\* newConfig has returned a configuration whose span options hold exactly one
\* event sample rate tag, the last of them, with the rate in force; or none
\* when analytics is disabled.
TagIffEnabled ==
    IF Configured(opts, env).nan
    THEN RateTags(cfg.spanOpts) = <<>>
    ELSE /\ RateTags(cfg.spanOpts) = <<StartSpanTag("_dd1.sr.eausr", Configured(opts, env))>>
         /\ cfg.spanOpts[Len(cfg.spanOpts)] = RateTags(cfg.spanOpts)[1]

\* C20 as stated: newConfig adds the event sample rate tag exactly when
\* analytics is not disabled, with the rate in force; and with the default
\* global rate and no option there is no such tag.
C20_NoTagByDefaultAnyEnv ==
    cpc = "done" =>
        /\ TagIffEnabled
        /\ (opts = <<>> /\ env.globalRate.nan) => RateTags(cfg.spanOpts) = <<>>

\* C20 amended: newConfig adds the event sample rate tag exactly when
\* analytics is not disabled, with the rate in force (the last analytics
\* option's, else 1.0 if DD_TRACE_MUX_ANALYTICS_ENABLED is true, else the
\* global rate); and with the default global rate, no option and that
\* variable not true there is no such tag.
C20_AnalyticsTag ==
    cpc = "done" =>
        /\ TagIffEnabled
        /\ (opts = <<>> /\ env.globalRate.nan /\ ~env.analyticsEnabled)
              => RateTags(cfg.spanOpts) = <<>>
        /\ (opts = <<>> /\ env.analyticsEnabled)
              => RateTags(cfg.spanOpts) = <<StartSpanTag("_dd1.sr.eausr", Float(100))>>

\* C20 witness: with a global rate of 0.4, WithAnalytics(false) followed by
\* WithAnalyticsRate(0.23) gives the tag with 0.23.
C20_Witness ==
    /\ cpc = "done"
    /\ env.globalRate = Float(40)
    /\ Len(opts) = 2
    /\ opts[1] = Option("WithAnalytics", FALSE, NaN, <<>>)
    /\ opts[2] = Option("WithAnalyticsRate", FALSE, Float(23), <<>>)
    /\ cfg.spanOpts = <<StartSpanTag(EventSampleRate, Float(23))>>

\* The entries of the WithHeaderTags options among os, in order.
RECURSIVE EntriesOf(_)
EntriesOf(os) ==
    IF os = <<>> THEN <<>>
    ELSE (IF Head(os).fn = "WithHeaderTags" THEN Head(os).headersAsTags ELSE <<>>)
         \o EntriesOf(Tail(os))

\* Where entry e has its ':' characters, and the smallest of a set of places.
Colons(e) == {i \in 1..Len(e) : e[i] = ":"}
First(places) == CHOOSE i \in places : \A j \in places : i <= j

\* The part of e before its first ':' (all of e when it has none), and the
\* part between its first ':' and its second, or the end.
FirstPart(e) == IF Colons(e) = {} THEN e ELSE SubSeq(e, 1, First(Colons(e)) - 1)
SecondPart(e) ==
    LET later == {i \in Colons(e) : i > First(Colons(e))}
    IN  SubSeq(e, First(Colons(e)) + 1, IF later = {} THEN Len(e) ELSE First(later) - 1)

\* The header an entry names and the tag name it maps the header to.
HeaderOf(e) == TrimSpace(ToLower(FirstPart(e)))
TagNameOf(e) ==
    IF Colons(e) # {} THEN TrimSpace(ToLower(SecondPart(e)))
    ELSE <<"http.request.headers", ".">> \o HeaderOf(e)

====
